---- MODULE Spec2Model ----
(***************************************************************************)
(* Rate-limit retry layer of the proxy (src-tauri/src/proxy/               *)
(* rate_limit_retry.rs): the RetryState backoff state machine and the SSE  *)
(* rate-limit scanner.                                                     *)
(*                                                                         *)
(* f64 seconds are modelled as exact rationals <<n, d>> (d > 0, lowest     *)
(* terms); every configuration value drawn below is a dyadic rational or   *)
(* an integer, as an f64 is.  A Duration is [secs, nanos] as in std, and   *)
(* Duration::from_secs_f64 rounds to the nearest nanosecond.               *)
(***************************************************************************)
EXTENDS Integers, Sequences, FiniteSets, TLC

VARIABLES
    attempt,      \* RetryState.attempt
    config,       \* RetryState.config
    pc,           \* the owning task: "idle", "sleeping", "cancelled" ("off": no retry sequence)
    timerFired,   \* the tokio timer of the pending sleep has elapsed
    sleepDelay,   \* the Duration handed to sleep()
    attempt0,     \* attempt when the pending/last wait_and_increment was called
    completed,    \* number of wait_and_increment calls that returned
    disciplined,  \* the caller invokes wait_and_increment only while can_retry()
    ret,          \* the last operation and what it returned
    sse_data,     \* the chunk handed to detect_rate_limit_in_sse
    lineIter,     \* sse_data.lines(): the lines the loop iterates over
    lineNo,       \* lines the loop has consumed
    scanPc,       \* "off", "scanning", "returned"
    scanRet,      \* what detect_rate_limit_in_sse returned
    cand,         \* the text classified at the line consumed last, if any
    history,      \* the calls of detect_rate_limit_in_sse made before this one
    seqs          \* concurrent retry sequences: one RetryState and task each

retryVars == <<attempt, config, pc, timerFired, sleepDelay, attempt0, completed,
               disciplined, ret>>

scanVars == <<sse_data, lineIter, lineNo, scanPc, scanRet, cand, history>>

vars == <<retryVars, scanVars, seqs>>

----------------------------------------------------------------------------
(* Bounds of the model *)

MaxRetriesBound == 3
MaxAttempt == 10
UDen == 4

----------------------------------------------------------------------------
(* Exact rational arithmetic standing for f64 arithmetic *)

RECURSIVE GCD(_, _)
GCD(a, b) == IF b = 0 THEN a ELSE GCD(b, a % b)

Abs(x) == IF x < 0 THEN -x ELSE x

Norm(n, d) ==
    LET g == GCD(Abs(n), d)
    IN  IF n = 0 THEN <<0, 1>> ELSE <<n \div g, d \div g>>

Rat(n, d) == Norm(n, d)

RMul(p, q) ==
    LET g1 == GCD(Abs(p[1]), q[2])
        g2 == GCD(Abs(q[1]), p[2])
        a  == IF p[1] = 0 THEN 0 ELSE p[1] \div g1
        b  == IF q[1] = 0 THEN 0 ELSE q[1] \div g2
    IN  IF p[1] = 0 \/ q[1] = 0 THEN <<0, 1>>
        ELSE Norm(a * b, (p[2] \div g2) * (q[2] \div g1))

RAdd(p, q) ==
    LET g == GCD(p[2], q[2])
        l == (p[2] \div g) * q[2]
    IN  Norm(p[1] * (l \div p[2]) + q[1] * (l \div q[2]), l)

RNeg(p) == <<-p[1], p[2]>>

RSub(p, q) == RAdd(p, RNeg(q))

RLe(p, q) == p[1] * q[2] <= q[1] * p[2]

RLt(p, q) == p[1] * q[2] < q[1] * p[2]

\* f64::min, f64::max on finite values
RMin(p, q) == IF RLe(p, q) THEN p ELSE q

RMax(p, q) == IF RLe(p, q) THEN q ELSE p

\* f64::powi with a non-negative exponent
RECURSIVE powi(_, _)
powi(p, k) == IF k = 0 THEN <<1, 1>> ELSE RMul(p, powi(p, k - 1))

----------------------------------------------------------------------------
(* std::time::Duration *)

NanoDigits == 9

Duration(s, n) == [secs |-> s, nanos |-> n]

ZeroDuration == Duration(0, 0)

\* Long division of r/d (0 <= r < d) to k decimal digits: <<digits, remainder>>
RECURSIVE DivDigits(_, _, _, _)
DivDigits(r, d, k, acc) ==
    IF k = 0 THEN <<acc, r>>
    ELSE DivDigits((r * 10) % d, d, k - 1, acc * 10 + ((r * 10) \div d))

RECURSIVE Pow10(_)
Pow10(k) == IF k = 0 THEN 1 ELSE 10 * Pow10(k - 1)

\* q >= 0 cut to whole nanoseconds: the Duration below it and what is left over
\* (rem / q[2] of a nanosecond)
TruncNanos(q) ==
    LET dd == DivDigits(q[1] % q[2], q[2], NanoDigits, 0)
    IN  [secs |-> q[1] \div q[2], nanos |-> dd[1], rem |-> dd[2]]

AddNano(t) ==
    IF t.nanos + 1 = Pow10(NanoDigits) THEN Duration(t.secs + 1, 0)
    ELSE Duration(t.secs, t.nanos + 1)

\* Duration::from_secs_f64 on a finite non-negative value: round to the nearest
\* nanosecond, ties to even
from_secs_f64(q) ==
    LET t    == TruncNanos(q)
        down == Duration(t.secs, t.nanos)
    IN  IF 2 * t.rem > q[2] THEN AddNano(t)
        ELSE IF 2 * t.rem = q[2] /\ t.nanos % 2 = 1 THEN AddNano(t)
        ELSE down

----------------------------------------------------------------------------
(* RetryConfig and RetryState *)

DefaultConfig ==
    [max_retries |-> 3,
     initial_backoff_seconds |-> Rat(1, 1),
     backoff_multiplier |-> Rat(2, 1),
     max_backoff_seconds |-> Rat(30, 1),
     jitter_factor |-> Rat(1, 10)]

Configs ==
    [max_retries : 0..MaxRetriesBound,
     initial_backoff_seconds : {Rat(1, 1), Rat(1, 1024)},
     backoff_multiplier : {Rat(1, 1), Rat(2, 1), Rat(3, 2)},
     max_backoff_seconds : {Rat(5, 1), Rat(30, 1)},
     jitter_factor : {Rat(0, 1), Rat(1, 2), Rat(1, 1), Rat(3, 1)}]
    \cup {DefaultConfig}

\* rand::random::<f64>(): a value of [0, 1)
Draws == {Rat(k, UDen) : k \in 0..(UDen - 1)}

\* mutant: the bound is taken inclusive
can_retry_inclusive == attempt <= config.max_retries

can_retry == attempt < config.max_retries

base_delay(a, c) ==
    RMul(c.initial_backoff_seconds, powi(c.backoff_multiplier, a))

\* mutant: the cap is forgotten
capped_delay_uncapped(a, c) == base_delay(a, c)

\* mutant: past the cap the delay starts again from the initial one
capped_delay_resets(a, c) ==
    IF RLe(base_delay(a, c), c.max_backoff_seconds) THEN base_delay(a, c)
    ELSE c.initial_backoff_seconds

capped_delay(a, c) == RMin(base_delay(a, c), c.max_backoff_seconds)

\* mutant: the draw is not centred on zero
jitter_uncentred(a, c, u) ==
    RMul(RMul(capped_delay(a, c), c.jitter_factor), u)

jitter(a, c, u) ==
    RMul(RMul(capped_delay(a, c), c.jitter_factor), RSub(u, Rat(1, 2)))

final_delay(a, c, u) ==
    RMax(RAdd(capped_delay(a, c), jitter(a, c, u)), Rat(0, 1))

calculate_backoff(u) == from_secs_f64(final_delay(attempt, config, u))

NoRet == [op |-> "new", b |-> FALSE, u |-> Rat(0, 1), d |-> ZeroDuration]

new(c) ==
    /\ attempt = 0
    /\ config = c

Init ==
    /\ \E c \in Configs : new(c)
    /\ pc = "idle"
    /\ timerFired = FALSE
    /\ sleepDelay = ZeroDuration
    /\ attempt0 = 0
    /\ completed = 0
    /\ disciplined \in BOOLEAN
    /\ ret = NoRet
    /\ sse_data = <<>>
    /\ lineIter = <<>>
    /\ lineNo = 0
    /\ scanPc = "off"
    /\ scanRet = FALSE
    /\ cand = [some |-> FALSE, s |-> <<>>]
    /\ history = <<>>
    /\ seqs = <<>>

CanRetry ==
    /\ pc = "idle"
    /\ ret' = [NoRet EXCEPT !.op = "can_retry", !.b = can_retry]
    /\ UNCHANGED <<attempt, config, pc, timerFired, sleepDelay, attempt0,
                   completed, disciplined,
                   scanVars, seqs>>

\* mutant: computing the backoff advances the counter
CalculateBackoffAdvances ==
    /\ pc = "idle"
    /\ attempt < MaxAttempt
    /\ \E u \in Draws :
          ret' = [NoRet EXCEPT !.op = "calculate_backoff", !.u = u,
                               !.d = calculate_backoff(u)]
    /\ attempt' = attempt + 1
    /\ UNCHANGED <<config, pc, timerFired, sleepDelay, attempt0,
                   completed, disciplined,
                   scanVars, seqs>>

CalculateBackoff ==
    /\ pc = "idle"
    /\ \E u \in Draws :
          ret' = [NoRet EXCEPT !.op = "calculate_backoff", !.u = u,
                               !.d = calculate_backoff(u)]
    /\ UNCHANGED <<attempt, config, pc, timerFired, sleepDelay, attempt0,
                   completed, disciplined,
                   scanVars, seqs>>

\* mutant: wait_and_increment returns at once when can_retry() is false
WaitStartChecksCanRetry ==
    /\ pc = "idle"
    /\ disciplined => can_retry
    /\ attempt < MaxAttempt
    /\ attempt0' = attempt
    /\ IF can_retry
       THEN /\ \E u \in Draws :
                  /\ sleepDelay' = calculate_backoff(u)
                  /\ ret' = [NoRet EXCEPT !.op = "wait_start", !.u = u]
            /\ pc' = "sleeping"
            /\ timerFired' = FALSE
       ELSE /\ ret' = [NoRet EXCEPT !.op = "wait_and_increment"]
            /\ UNCHANGED <<pc, timerFired, sleepDelay>>
    /\ UNCHANGED <<attempt, config, completed, disciplined,
                   scanVars, seqs>>

\* mutant: the counter is incremented before the sleep
WaitStartIncrementsFirst ==
    /\ pc = "idle"
    /\ disciplined => can_retry
    /\ attempt < MaxAttempt
    /\ \E u \in Draws :
          /\ sleepDelay' = calculate_backoff(u)
          /\ ret' = [NoRet EXCEPT !.op = "wait_start", !.u = u]
    /\ pc' = "sleeping"
    /\ timerFired' = FALSE
    /\ attempt0' = attempt
    /\ attempt' = attempt + 1
    /\ UNCHANGED <<config, completed, disciplined,
                   scanVars, seqs>>

\* wait_and_increment up to the await: the delay is computed and the sleep begins
WaitStart ==
    /\ pc = "idle"
    /\ disciplined => can_retry
    /\ attempt < MaxAttempt
    /\ \E u \in Draws :
          /\ sleepDelay' = calculate_backoff(u)
          /\ ret' = [NoRet EXCEPT !.op = "wait_start", !.u = u]
    /\ pc' = "sleeping"
    /\ timerFired' = FALSE
    /\ attempt0' = attempt
    /\ UNCHANGED <<attempt, config, completed, disciplined,
                   scanVars, seqs>>

\* the runtime's timer elapses and wakes the task
TimerFire ==
    /\ pc = "sleeping"
    /\ ~timerFired
    /\ timerFired' = TRUE
    /\ UNCHANGED <<attempt, config, pc, sleepDelay, attempt0, completed,
                   disciplined, ret,
                   scanVars, seqs>>

\* mutant: a completed wait is not counted
WaitResumeForgets ==
    /\ pc = "sleeping"
    /\ timerFired
    /\ pc' = "idle"
    /\ timerFired' = FALSE
    /\ sleepDelay' = ZeroDuration
    /\ ret' = [NoRet EXCEPT !.op = "wait_and_increment"]
    /\ UNCHANGED <<attempt, config, attempt0, completed, disciplined,
                   scanVars, seqs>>

\* mutant: a completed wait advances the counter by two
WaitResumeTwice ==
    /\ pc = "sleeping"
    /\ timerFired
    /\ attempt' = attempt + 2
    /\ completed' = completed + 1
    /\ pc' = "idle"
    /\ timerFired' = FALSE
    /\ sleepDelay' = ZeroDuration
    /\ ret' = [NoRet EXCEPT !.op = "wait_and_increment"]
    /\ UNCHANGED <<config, attempt0, disciplined,
                   scanVars, seqs>>

\* the task is polled after the timer elapsed: the await returns, the counter
\* is incremented and wait_and_increment returns
WaitResume ==
    /\ pc = "sleeping"
    /\ timerFired
    /\ attempt' = attempt + 1
    /\ completed' = completed + 1
    /\ pc' = "idle"
    /\ timerFired' = FALSE
    /\ sleepDelay' = ZeroDuration
    /\ ret' = [NoRet EXCEPT !.op = "wait_and_increment"]
    /\ UNCHANGED <<config, attempt0, disciplined,
                   scanVars, seqs>>

\* mutant: a cancellation after the timer elapsed still counts the wait
CancelAfterWakeCounts ==
    /\ pc = "sleeping"
    /\ pc' = "cancelled"
    /\ attempt' = IF timerFired THEN attempt + 1 ELSE attempt
    /\ ret' = [NoRet EXCEPT !.op = "cancel"]
    /\ UNCHANGED <<config, timerFired, sleepDelay, attempt0, completed,
                   disciplined,
                   scanVars, seqs>>

\* the owning task is aborted while suspended: the future is dropped at the await
Cancel ==
    /\ pc = "sleeping"
    /\ pc' = "cancelled"
    /\ ret' = [NoRet EXCEPT !.op = "cancel"]
    /\ UNCHANGED <<attempt, config, timerFired, sleepDelay, attempt0, completed,
                   disciplined,
                   scanVars, seqs>>

Next ==
    \/ CanRetry
    \/ CalculateBackoff
    \/ WaitStart
    \/ TimerFire
    \/ WaitResume
    \/ Cancel

Spec == Init /\ [][Next]_vars

----------------------------------------------------------------------------
(* Event-stream text.  A text is a sequence of symbols; each symbol stands   *)
(* for the characters it spells.  "rate", "Rate", "RATE", "limit", "LIMIT"   *)
(* are the letter-case variants of the two words of the needle, "z" is any   *)
(* other text, "\\u0020" is the JSON escape of a space (six characters in    *)
(* the raw text, one space once decoded).                                    *)

Q == "\""

Whitespace == {" ", "\r", "\n"}

NEEDLE == <<"rate", " ", "limit">>

\* char::to_lowercase, symbol by symbol
LowerSym(c) ==
    CASE c \in {"rate", "Rate", "RATE"} -> "rate"
      [] c \in {"limit", "LIMIT"} -> "limit"
      [] c = "[DONE]" -> "[done]"
      [] OTHER -> c

\* str::to_lowercase
to_lowercase(t) == [i \in 1..Len(t) |-> LowerSym(t[i])]

\* str::contains
contains(t, pat) ==
    \E i \in 0..(Len(t) - Len(pat)) : SubSeq(t, i + 1, i + Len(pat)) = pat

\* mutant: the text is not lowercased before the search
is_rate_limit_error_case_sensitive(content) == contains(content, NEEDLE)

\* mutant: the first word alone is taken for the signal
is_rate_limit_error_loose(content) == contains(to_lowercase(content), <<"rate">>)

is_rate_limit_error(content) == contains(to_lowercase(content), NEEDLE)

\* str::lines: split at "\n", one "\r" before the "\n" is stripped; a last line
\* without terminator is a line, an empty rest after the last "\n" is not
RECURSIVE FirstNewline(_, _)
FirstNewline(s, i) ==
    IF i > Len(s) THEN 0
    ELSE IF s[i] = "\n" THEN i
    ELSE FirstNewline(s, i + 1)

StripCr(l) ==
    IF Len(l) > 0 /\ l[Len(l)] = "\r" THEN SubSeq(l, 1, Len(l) - 1) ELSE l

RECURSIVE lines(_)
lines(s) ==
    IF s = <<>> THEN <<>>
    ELSE LET n == FirstNewline(s, 1)
         IN  IF n = 0 THEN <<s>>
             ELSE <<StripCr(SubSeq(s, 1, n - 1))>> \o lines(SubSeq(s, n + 1, Len(s)))

None == [some |-> FALSE, s |-> <<>>]

Some(t) == [some |-> TRUE, s |-> t]

\* mutant: the marker is accepted without the space that ends it, and on any
\* line that carries it
strip_prefix_lenient(line) ==
    IF \E i \in 1..Len(line) : line[i] = "data:"
    THEN LET i == CHOOSE k \in 1..Len(line) :
                     line[k] = "data:" /\ \A m \in 1..(k - 1) : line[m] # "data:"
         IN  Some(SubSeq(line, i + 1, Len(line)))
    ELSE IF Len(line) > 0 /\ line[1] = "event:" THEN Some(SubSeq(line, 2, Len(line)))
    ELSE None

\* line.strip_prefix("data: ")
strip_prefix(line) ==
    IF Len(line) >= 2 /\ line[1] = "data:" /\ line[2] = " "
    THEN Some(SubSeq(line, 3, Len(line)))
    ELSE None

\* str::trim
RECURSIVE TrimStart(_)
TrimStart(t) ==
    IF t # <<>> /\ t[1] \in Whitespace THEN TrimStart(Tail(t)) ELSE t

RECURSIVE TrimEnd(_)
TrimEnd(t) ==
    IF t # <<>> /\ t[Len(t)] \in Whitespace
    THEN TrimEnd(SubSeq(t, 1, Len(t) - 1)) ELSE t

trim(t) == TrimEnd(TrimStart(t))

----------------------------------------------------------------------------
(* serde_json::Value and serde_json::from_str over these symbols: strings,   *)
(* the number 1 and objects                                                  *)

JString(t) == [t |-> "str", s |-> t, f |-> <<>>]

JNumber == [t |-> "num", s |-> <<>>, f |-> <<>>]

JObject(members) == [t |-> "obj", s |-> <<>>, f |-> members]

ParseFail == [ok |-> FALSE, v |-> JNumber, i |-> 0]

ParseOk(v, i) == [ok |-> TRUE, v |-> v, i |-> i]

RECURSIVE SkipWs(_, _)
SkipWs(s, i) ==
    IF i <= Len(s) /\ s[i] \in Whitespace THEN SkipWs(s, i + 1) ELSE i

\* the characters of a string after its opening quote, up to the closing one:
\* an escape is decoded, a raw control character is an error
RECURSIVE ParseString(_, _, _)
ParseString(s, i, acc) ==
    IF i > Len(s) THEN ParseFail
    ELSE IF s[i] = Q THEN ParseOk(JString(acc), i + 1)
    ELSE IF s[i] \in {"\r", "\n"} THEN ParseFail
    ELSE IF s[i] = "\\u0020" THEN ParseString(s, i + 1, Append(acc, " "))
    ELSE ParseString(s, i + 1, Append(acc, s[i]))

RECURSIVE ParseValue(_, _)
RECURSIVE ParseMembers(_, _, _)

\* the members of an object from the key at i on, to the closing brace
ParseMembers(s, i, acc) ==
    IF i > Len(s) \/ s[i] # Q THEN ParseFail
    ELSE LET key == ParseString(s, i + 1, <<>>)
             c   == SkipWs(s, key.i)
         IN  IF ~key.ok \/ c > Len(s) \/ s[c] # ":" THEN ParseFail
             ELSE LET val == ParseValue(s, c + 1)
                      e   == SkipWs(s, val.i)
                      all == Append(acc, [k |-> key.v.s, v |-> val.v])
                  IN  IF ~val.ok \/ e > Len(s) THEN ParseFail
                      ELSE IF s[e] = "}" THEN ParseOk(JObject(all), e + 1)
                      ELSE IF s[e] = "," THEN ParseMembers(s, SkipWs(s, e + 1), all)
                      ELSE ParseFail

ParseValue(s, i) ==
    LET j == SkipWs(s, i)
    IN  IF j > Len(s) THEN ParseFail
        ELSE IF s[j] = Q THEN ParseString(s, j + 1, <<>>)
        ELSE IF s[j] = "1" THEN ParseOk(JNumber, j + 1)
        ELSE IF s[j] = "{" THEN
            LET k == SkipWs(s, j + 1)
            IN  IF k <= Len(s) /\ s[k] = "}" THEN ParseOk(JObject(<<>>), k + 1)
                ELSE ParseMembers(s, k, <<>>)
        ELSE ParseFail

\* serde_json::from_str::<Value>: one value, then only whitespace
from_str(s) ==
    LET r == ParseValue(s, 1)
    IN  IF r.ok /\ SkipWs(s, r.i) > Len(s) THEN r ELSE ParseFail

\* Value::get(key): the member of an object under key (the last one wins)
Get(v, key) ==
    IF v.t = "obj" /\ \E i \in 1..Len(v.f) : v.f[i].k = <<key>>
    THEN LET i == CHOOSE k \in 1..Len(v.f) :
                     v.f[k].k = <<key>> /\ \A m \in (k + 1)..Len(v.f) : v.f[m].k # <<key>>
         IN  [some |-> TRUE, v |-> v.f[i].v]
    ELSE [some |-> FALSE, v |-> JNumber]

\* json.get(key).and_then(|v| v.as_str())
GetStr(v, key) ==
    LET g == Get(v, key)
    IN  IF g.some /\ g.v.t = "str" THEN Some(g.v.s) ELSE None

\* a variant that consults delta.text before the error field
extract_error_delta_first(json) ==
    LET error == Get(json, "error")
        delta == Get(json, "delta")
    IN  IF delta.some /\ GetStr(delta.v, "text").some
             THEN GetStr(delta.v, "text")
        ELSE IF error.some /\ error.v.t = "str" THEN Some(error.v.s)
        ELSE IF error.some /\ error.v.t = "obj" /\ GetStr(error.v, "message").some
             THEN GetStr(error.v, "message")
        ELSE IF error.some /\ error.v.t = "obj" /\ GetStr(error.v, "detail").some
             THEN GetStr(error.v, "detail")
        ELSE GetStr(json, "message")

extract_error_from_json(json) ==
    LET error == Get(json, "error")
        delta == Get(json, "delta")
    IN  IF error.some /\ error.v.t = "str" THEN Some(error.v.s)
        ELSE IF error.some /\ error.v.t = "obj" /\ GetStr(error.v, "message").some
             THEN GetStr(error.v, "message")
        ELSE IF error.some /\ error.v.t = "obj" /\ GetStr(error.v, "detail").some
             THEN GetStr(error.v, "detail")
        ELSE IF delta.some /\ GetStr(delta.v, "text").some
             THEN GetStr(delta.v, "text")
        ELSE GetStr(json, "message")

----------------------------------------------------------------------------
(* The chunks the scanner is run on *)

MaxLines == 2

JStr(t) == <<Q>> \o t \o <<Q>>

JField(k, v) == JStr(<<k>>) \o <<":">> \o v

JObj1(k, v) == <<"{">> \o JField(k, v) \o <<"}">>

JObj2(k1, v1, k2, v2) ==
    <<"{">> \o JField(k1, v1) \o <<",">> \o JField(k2, v2) \o <<"}">>

DataPayloads ==
    { <<"rate", " ", "limit">>,
      <<"z", " ", "RATE", " ", "LIMIT", " ", "z">>,
      <<"rate", "limit">>,
      <<"rate", "\\u0020", "limit">>,
      <<"z">>,
      <<"[DONE]">>,
      <<" ", "[DONE]", " ">>,
      <<"[DONE]", " ", "rate", " ", "limit">>,
      <<"1">>,
      JStr(<<"rate", " ", "limit">>),
      JObj1("error", JStr(<<"Rate", " ", "limit">>)),
      JObj1("error", JStr(<<"z">>)),
      JObj1("error", JStr(<<"rate", "\\u0020", "limit">>)),
      <<"{", " ">> \o JField("error", <<" ">> \o JStr(<<"rate", " ", "limit">>)) \o <<" ", "}">>,
      <<"{">> \o JField("error", <<Q, "rate", " ", "limit">>),
      JObj1("error", JObj1("message", JStr(<<"RATE", " ", "LIMIT">>))),
      JObj1("error", JObj1("detail", JStr(<<"rate", " ", "limit">>))),
      JObj1("error", JObj2("message", JStr(<<"z">>), "detail", JStr(<<"rate", " ", "limit">>))),
      JObj1("delta", JObj1("text", JStr(<<"Rate", " ", "limit", " ", "z">>))),
      JObj1("delta", JObj1("text", JStr(<<"z">>))),
      JObj1("message", JStr(<<"rate", " ", "limit">>)),
      JObj1("other", JStr(<<"rate", " ", "limit">>)),
      JObj2("error", <<"1">>, "message", JStr(<<"rate", " ", "limit">>)),
      JObj2("error", JStr(<<"z">>), "delta", JObj1("text", JStr(<<"rate", " ", "limit">>))),
      JObj2("error", <<"{", "}">>, "delta", JObj1("text", JStr(<<"rate", " ", "limit">>))) }

DataLines == {<<"data:", " ">> \o p : p \in DataPayloads}

OtherLines ==
    { <<>>,
      <<"event:", " ", "z">>,
      <<"event:", " ", "rate", " ", "limit">>,
      <<"rate", " ", "limit">>,
      <<"data:", "rate", " ", "limit">>,
      <<" ", "data:", " ", "rate", " ", "limit">> }

Lines == DataLines \cup OtherLines

\* the lines ls joined by the terminator eol, the last one terminated or not
RECURSIVE Join(_, _, _)
Join(ls, eol, last) ==
    IF ls = <<>> THEN <<>>
    ELSE IF Len(ls) = 1 THEN Head(ls) \o (IF last THEN eol ELSE <<>>)
    ELSE Head(ls) \o eol \o Join(Tail(ls), eol, last)

Layouts == {<<<<"\n">>, TRUE>>, <<<<"\r", "\n">>, TRUE>>, <<<<"\n">>, FALSE>>}

Chunks ==
    {Join(ls, lay[1], lay[2]) :
        ls \in UNION {[1..n -> Lines] : n \in 0..MaxLines}, lay \in Layouts}

----------------------------------------------------------------------------
(* detect_rate_limit_in_sse, one line of the loop per step *)

ScanInit ==
    /\ attempt = 0
    /\ config = DefaultConfig
    /\ pc = "off"
    /\ timerFired = FALSE
    /\ sleepDelay = ZeroDuration
    /\ attempt0 = 0
    /\ completed = 0
    /\ disciplined = TRUE
    /\ ret = NoRet
    /\ sse_data \in Chunks
    /\ lineIter = lines(sse_data)
    /\ lineNo = 0
    /\ scanPc = "scanning"
    /\ scanRet = FALSE
    /\ cand = None
    /\ history = <<>>
    /\ seqs = <<>>

HasLine == scanPc = "scanning" /\ lineNo < Len(lineIter)

Line == lineIter[lineNo + 1]

Data == strip_prefix(Line).s

IsDone(data) == trim(data) = <<"[DONE]">>

Continue ==
    /\ lineNo' = lineNo + 1
    /\ UNCHANGED <<sse_data, lineIter, scanPc, scanRet, history>>

\* a variant that records the match and goes on to the next line
ReturnTrueNoBreak ==
    /\ lineNo' = lineNo + 1
    /\ scanRet' = TRUE
    /\ UNCHANGED <<sse_data, lineIter, scanPc, history>>

ReturnTrue ==
    /\ lineNo' = lineNo + 1
    /\ scanPc' = "returned"
    /\ scanRet' = TRUE
    /\ UNCHANGED <<sse_data, lineIter, history>>

\* a variant in which a line without the marker ends the scan
ScanOtherLineStops ==
    /\ HasLine
    /\ ~strip_prefix(Line).some
    /\ cand' = None
    /\ lineNo' = lineNo + 1
    /\ scanPc' = "returned"
    /\ scanRet' = FALSE
    /\ UNCHANGED <<sse_data, lineIter, history>>
    /\ UNCHANGED <<retryVars, seqs>>

\* the line does not start with "data: "
ScanOtherLine ==
    /\ HasLine
    /\ ~strip_prefix(Line).some
    /\ cand' = None
    /\ Continue
    /\ UNCHANGED <<retryVars, seqs>>

\* the payload is the [DONE] marker
ScanDoneLine ==
    /\ HasLine
    /\ strip_prefix(Line).some
    /\ IsDone(Data)
    /\ cand' = None
    /\ Continue
    /\ UNCHANGED <<retryVars, seqs>>

\* a variant that checks the payload text when no field is extracted
ScanJsonLineFallsBack ==
    /\ HasLine
    /\ strip_prefix(Line).some
    /\ ~IsDone(Data)
    /\ from_str(Data).ok
    /\ LET extracted == extract_error_from_json(from_str(Data).v)
           error_text == IF extracted.some THEN extracted ELSE Some(Data)
       IN  /\ cand' = error_text
           /\ IF is_rate_limit_error(error_text.s) THEN ReturnTrue ELSE Continue
    /\ UNCHANGED <<retryVars, seqs>>

\* the payload parses as JSON
ScanJsonLine ==
    /\ HasLine
    /\ strip_prefix(Line).some
    /\ ~IsDone(Data)
    /\ from_str(Data).ok
    /\ LET error_text == extract_error_from_json(from_str(Data).v)
       IN  /\ cand' = error_text
           /\ IF error_text.some /\ is_rate_limit_error(error_text.s)
              THEN ReturnTrue ELSE Continue
    /\ UNCHANGED <<retryVars, seqs>>

\* a variant in which a parse failure ends the scan
ScanRawLineAborts ==
    /\ HasLine
    /\ strip_prefix(Line).some
    /\ ~IsDone(Data)
    /\ ~from_str(Data).ok
    /\ cand' = None
    /\ lineNo' = lineNo + 1
    /\ scanPc' = "returned"
    /\ scanRet' = FALSE
    /\ UNCHANGED <<sse_data, lineIter, history>>
    /\ UNCHANGED <<retryVars, seqs>>

\* the payload is not JSON: the text itself is checked
ScanRawLine ==
    /\ HasLine
    /\ strip_prefix(Line).some
    /\ ~IsDone(Data)
    /\ ~from_str(Data).ok
    /\ cand' = Some(Data)
    /\ IF is_rate_limit_error(Data) THEN ReturnTrue ELSE Continue
    /\ UNCHANGED <<retryVars, seqs>>

\* the lines are exhausted
ScanEnd ==
    /\ scanPc = "scanning"
    /\ lineNo = Len(lineIter)
    /\ scanPc' = "returned"
    /\ scanRet' = FALSE
    /\ UNCHANGED <<sse_data, lineIter, lineNo, cand, history>>
    /\ UNCHANGED <<retryVars, seqs>>

ScanNext ==
    \/ ScanOtherLine
    \/ ScanDoneLine
    \/ ScanJsonLine
    \/ ScanRawLine
    \/ ScanEnd

ScanSpec == ScanInit /\ [][ScanNext]_vars

----------------------------------------------------------------------------
(* detect_rate_limit_in_sse called on one chunk after another *)

MaxCalls == 3

\* the chunks of a stream: whole lines, and a payload line cut in two
CallPieces ==
    { <<"\n">>,
      <<"data:", " ", "rate", " ", "limit", "\n">>,
      <<"data:", " ">> \o JObj1("delta", JObj1("text", JStr(<<"z">>))) \o <<"\r", "\n">>,
      <<"data:", " ", "{">> \o <<Q, "error", Q, ":", Q, "rate">>,
      <<" ", "limit", Q, "}", "\n">>,
      <<"data:", " ", "[DONE]", "\n">>,
      <<"data:", " ", "z">> }

\* what a caller may pass next: a piece, or two chunks passed before, joined
NextChunks(h) ==
    CallPieces \cup {h[i].chunk \o h[j].chunk : i, j \in 1..Len(h)}

CallInit ==
    /\ attempt = 0
    /\ config = DefaultConfig
    /\ pc = "off"
    /\ timerFired = FALSE
    /\ sleepDelay = ZeroDuration
    /\ attempt0 = 0
    /\ completed = 0
    /\ disciplined = TRUE
    /\ ret = NoRet
    /\ sse_data \in CallPieces
    /\ lineIter = lines(sse_data)
    /\ lineNo = 0
    /\ scanPc = "scanning"
    /\ scanRet = FALSE
    /\ cand = None
    /\ history = <<>>
    /\ seqs = <<>>

\* the part of a chunk after its last line terminator
Unterminated(s) ==
    IF s # <<>> /\ s[Len(s)] # "\n" THEN lines(s)[Len(lines(s))] ELSE <<>>

\* a variant that keeps the unterminated end of a chunk for the next call
ScanCallBuffers ==
    /\ scanPc = "returned"
    /\ Len(history) < MaxCalls - 1
    /\ history' = Append(history, [chunk |-> sse_data, ret |-> scanRet])
    /\ sse_data' \in NextChunks(history')
    /\ lineIter' = lines(Unterminated(sse_data) \o sse_data')
    /\ lineNo' = 0
    /\ scanPc' = "scanning"
    /\ scanRet' = FALSE
    /\ cand' = None
    /\ UNCHANGED <<retryVars, seqs>>

\* the next call: its only input is its argument, a fresh iterator over it
ScanCall ==
    /\ scanPc = "returned"
    /\ Len(history) < MaxCalls - 1
    /\ history' = Append(history, [chunk |-> sse_data, ret |-> scanRet])
    /\ sse_data' \in NextChunks(history')
    /\ lineIter' = lines(sse_data')
    /\ lineNo' = 0
    /\ scanPc' = "scanning"
    /\ scanRet' = FALSE
    /\ cand' = None
    /\ UNCHANGED <<retryVars, seqs>>

CallNext ==
    \/ ScanOtherLine
    \/ ScanDoneLine
    \/ ScanJsonLine
    \/ ScanRawLine
    \/ ScanEnd
    \/ ScanCall

CallSpec == CallInit /\ [][CallNext]_vars

----------------------------------------------------------------------------
(* Several requests retried at once: each task owns its RetryState *)

NumSeqs == 2

MaxSeqAttempt == 3

SeqIds == 1..NumSeqs

MultiConfigs ==
    { [DefaultConfig EXCEPT !.max_retries = 1, !.jitter_factor = Rat(0, 1)],
      [DefaultConfig EXCEPT !.max_retries = 2, !.jitter_factor = Rat(0, 1),
                            !.backoff_multiplier = Rat(3, 2)] }

\* RetryState::new(config) and the task that will drive it
NewSeq(c) ==
    [attempt |-> 0, config |-> c, pc |-> "idle", timerFired |-> FALSE,
     sleepDelay |-> ZeroDuration, completed |-> 0]

MultiInit ==
    /\ attempt = 0
    /\ config = DefaultConfig
    /\ pc = "off"
    /\ timerFired = FALSE
    /\ sleepDelay = ZeroDuration
    /\ attempt0 = 0
    /\ completed = 0
    /\ disciplined = TRUE
    /\ ret = NoRet
    /\ sse_data = <<>>
    /\ lineIter = <<>>
    /\ lineNo = 0
    /\ scanPc = "off"
    /\ scanRet = FALSE
    /\ cand = None
    /\ history = <<>>
    /\ seqs \in [SeqIds -> {NewSeq(c) : c \in MultiConfigs}]

\* wait_and_increment of sequence i up to the await
MWaitStart(i) ==
    /\ seqs[i].pc = "idle"
    /\ seqs[i].attempt < MaxSeqAttempt
    /\ \E u \in Draws :
          seqs' = [seqs EXCEPT ![i].sleepDelay =
                                   from_secs_f64(final_delay(seqs[i].attempt, seqs[i].config, u)),
                               ![i].pc = "sleeping",
                               ![i].timerFired = FALSE]
    /\ UNCHANGED <<retryVars, scanVars>>

\* the timer of sequence i elapses
MTimerFire(i) ==
    /\ seqs[i].pc = "sleeping"
    /\ ~seqs[i].timerFired
    /\ seqs' = [seqs EXCEPT ![i].timerFired = TRUE]
    /\ UNCHANGED <<retryVars, scanVars>>

\* a variant with one counter for all the sequences
MWaitResumeShared(i) ==
    /\ seqs[i].pc = "sleeping"
    /\ seqs[i].timerFired
    /\ seqs' = [j \in SeqIds |->
                   IF j = i
                   THEN [seqs[j] EXCEPT !.attempt = @ + 1, !.completed = @ + 1,
                                        !.pc = "idle", !.timerFired = FALSE,
                                        !.sleepDelay = ZeroDuration]
                   ELSE [seqs[j] EXCEPT !.attempt = @ + 1]]
    /\ UNCHANGED <<retryVars, scanVars>>

\* the await of sequence i returns and self.attempt += 1 runs on its own state
MWaitResume(i) ==
    /\ seqs[i].pc = "sleeping"
    /\ seqs[i].timerFired
    /\ seqs' = [seqs EXCEPT ![i].attempt = @ + 1, ![i].completed = @ + 1,
                            ![i].pc = "idle", ![i].timerFired = FALSE,
                            ![i].sleepDelay = ZeroDuration]
    /\ UNCHANGED <<retryVars, scanVars>>

\* the task of sequence i is aborted while suspended
MCancel(i) ==
    /\ seqs[i].pc = "sleeping"
    /\ seqs' = [seqs EXCEPT ![i].pc = "cancelled"]
    /\ UNCHANGED <<retryVars, scanVars>>

MultiNext ==
    \/ \E i \in SeqIds : MWaitStart(i)
    \/ \E i \in SeqIds : MTimerFire(i)
    \/ \E i \in SeqIds : MWaitResume(i)
    \/ \E i \in SeqIds : MCancel(i)

MultiSpec == MultiInit /\ [][MultiNext]_vars

----------------------------------------------------------------------------
(* A caller that waits only while can_retry() holds, and is never aborted *)

LoopConfigs ==
    {[DefaultConfig EXCEPT !.max_retries = n] : n \in 0..MaxRetriesBound}
    \cup {[DefaultConfig EXCEPT !.max_retries = n, !.backoff_multiplier = Rat(3, 2),
                                !.max_backoff_seconds = Rat(5, 1)] :
              n \in 0..MaxRetriesBound}

LoopInit ==
    /\ \E c \in LoopConfigs : new(c)
    /\ pc = "idle"
    /\ timerFired = FALSE
    /\ sleepDelay = ZeroDuration
    /\ attempt0 = 0
    /\ completed = 0
    /\ disciplined = TRUE
    /\ ret = NoRet
    /\ sse_data = <<>>
    /\ lineIter = <<>>
    /\ lineNo = 0
    /\ scanPc = "off"
    /\ scanRet = FALSE
    /\ cand = None
    /\ history = <<>>
    /\ seqs = <<>>

LoopNext ==
    \/ CanRetry
    \/ WaitStart
    \/ TimerFire
    \/ WaitResume

\* the guard of WaitStart: the caller is at a point where it starts a wait
WaitStartEnabled ==
    /\ pc = "idle"
    /\ disciplined => can_retry
    /\ attempt < MaxAttempt

\* the caller goes on with its loop (weak fairness of WaitStart, every step of
\* which leaves the idle state, written with its guard), every timer elapses
\* and every woken task is polled
LoopSpec ==
    /\ LoopInit
    /\ [][LoopNext]_vars
    /\ []<>(~WaitStartEnabled)
    /\ WF_vars(TimerFire)
    /\ WF_vars(WaitResume)

----------------------------------------------------------------------------
(* Retry sequences under policies with a small cap *)

\* policies whose cap is reached within a few attempts; 3 * 2^-11 s is not a
\* whole number of nanoseconds
CapConfigs ==
    [max_retries : {0, MaxRetriesBound},
     initial_backoff_seconds : {Rat(1, 1), Rat(1, 1024)},
     backoff_multiplier : {Rat(1, 1), Rat(2, 1), Rat(3, 2)},
     max_backoff_seconds : {Rat(5, 1), Rat(3, 2048)},
     jitter_factor : {Rat(0, 1), Rat(1, 2)}]

CapInit ==
    /\ \E c \in CapConfigs : new(c)
    /\ pc = "idle"
    /\ timerFired = FALSE
    /\ sleepDelay = ZeroDuration
    /\ attempt0 = 0
    /\ completed = 0
    /\ disciplined = FALSE
    /\ ret = NoRet
    /\ sse_data = <<>>
    /\ lineIter = <<>>
    /\ lineNo = 0
    /\ scanPc = "off"
    /\ scanRet = FALSE
    /\ cand = None
    /\ history = <<>>
    /\ seqs = <<>>

CapSpec == CapInit /\ [][Next]_vars

----------------------------------------------------------------------------
(* Comparing a Duration with an exact value of seconds *)

DurLe(x, y) == x.secs < y.secs \/ (x.secs = y.secs /\ x.nanos <= y.nanos)

\* the largest Duration <= q and the smallest Duration >= q (q >= 0)
FloorDur(q) == LET t == TruncNanos(q) IN Duration(t.secs, t.nanos)

CeilDur(q) == LET t == TruncNanos(q) IN IF t.rem = 0 THEN Duration(t.secs, t.nanos) ELSE AddNano(t)

WholeNanos(q) == TruncNanos(q).rem = 0

\* min(initial * multiplier^a, max) of the current state, written out
CappedNow ==
    RMin(RMul(config.initial_backoff_seconds, powi(config.backoff_multiplier, attempt)),
         config.max_backoff_seconds)

----------------------------------------------------------------------------
(* Claims about RetryState *)

\* C1: whenever can_retry() has just returned, its result is true iff
\* attempt < max_retries (so false at attempt = max_retries and at every larger
\* attempt, max_retries = 0 included), and the call changed neither attempt nor
\* the policy.
C1_CanRetryIff ==
    /\ [](ret.op = "can_retry" =>
            /\ ret.b <=> (attempt < config.max_retries)
            /\ attempt >= config.max_retries => ~ret.b)
    /\ [][ret'.op = "can_retry" /\ ret' # ret =>
            attempt' = attempt /\ config' = config]_vars

C1_Witness ==
    /\ ret.op = "can_retry"
    /\ config.max_retries = 0
    /\ attempt = 1
    /\ ret.b = FALSE

\* C2: while wait_and_increment is suspended (from the start of the call to
\* the end of the sleep) attempt still has the value it had before the call,
\* and when the call has returned attempt is that value plus one.
C2_IncrementAfterSleep ==
    /\ pc = "sleeping" => attempt = attempt0
    /\ ret.op = "wait_and_increment" => attempt = attempt0 + 1

C2_Witness ==
    /\ pc = "sleeping"
    /\ timerFired
    /\ attempt0 = 1
    /\ attempt = 1

\* C3: once the owning task has been cancelled while suspended in
\* wait_and_increment, attempt equals its value before the call, whether the
\* cancellation came before or after the timer elapsed.
C3_CancelSkipsIncrement ==
    pc = "cancelled" => attempt = attempt0 /\ attempt = completed

C3_Witness ==
    /\ pc = "cancelled"
    /\ timerFired
    /\ attempt = 2

\* C4: attempt never decreases; a step leaves it alone or adds exactly one, and
\* adds one only when a wait completes; with a caller that waits only while
\* can_retry() holds, attempt never exceeds max_retries + 1.
C4_AttemptMonotoneBounded ==
    /\ [][\/ attempt' = attempt
          \/ attempt' = attempt + 1 /\ completed' = completed + 1]_vars
    /\ [](disciplined => attempt <= config.max_retries + 1)

C4_Witness ==
    /\ disciplined
    /\ ret.op = "wait_and_increment"
    /\ config.max_retries = 3
    /\ attempt = 3

\* C5: calculate_backoff() and can_retry() leave attempt and every policy field
\* unchanged; attempt changes only when a wait_and_increment call completes, by
\* one per completed call; no step changes the policy.
C5_Frame ==
    /\ [][/\ ret'.op \in {"can_retry", "calculate_backoff"} /\ ret' # ret =>
                attempt' = attempt /\ config' = config
          /\ attempt' # attempt =>
                ret'.op = "wait_and_increment" /\ attempt' = attempt + 1
          /\ config' = config]_vars
    /\ [](attempt = completed)

C5_Witness ==
    /\ ret.op = "calculate_backoff"
    /\ attempt = 2
    /\ completed = 2
    /\ config.jitter_factor = Rat(1, 2)

\* C6 as stated: with jitter = 0, calculate_backoff() returns exactly
\* min(initial * multiplier^attempt, max).
C6_Original ==
    ret.op = "calculate_backoff" /\ config.jitter_factor = Rat(0, 1) =>
        ret.d = FloorDur(CappedNow) /\ WholeNanos(CappedNow)

\* C6 amended: with jitter = 0, calculate_backoff() returns
\* min(initial * multiplier^attempt, max) as a Duration of whole nanoseconds: it
\* is less than one nanosecond away from that value and equal to it when the
\* value is a whole number of nanoseconds; initial = 1, multiplier = 2 gives
\* 1, 2, 4 seconds at attempts 0, 1, 2 and exactly 5 seconds at attempt 10 with
\* max = 5.
C6_BackoffNoJitter ==
    ret.op = "calculate_backoff" /\ config.jitter_factor = Rat(0, 1) =>
        /\ ret.d \in {FloorDur(CappedNow), CeilDur(CappedNow)}
        /\ WholeNanos(CappedNow) => ret.d = FloorDur(CappedNow)
        /\ /\ config.initial_backoff_seconds = Rat(1, 1)
           /\ config.backoff_multiplier = Rat(2, 1)
           => /\ attempt = 0 => ret.d = Duration(1, 0)
              /\ attempt = 1 => ret.d = Duration(2, 0)
              /\ attempt = 2 => ret.d = Duration(4, 0)
              /\ attempt = 10 /\ config.max_backoff_seconds = Rat(5, 1) =>
                    ret.d = Duration(5, 0)

C6_Witness ==
    /\ ret.op = "calculate_backoff"
    /\ config.jitter_factor = Rat(0, 1)
    /\ config.initial_backoff_seconds = Rat(1, 1)
    /\ config.backoff_multiplier = Rat(2, 1)
    /\ config.max_backoff_seconds = Rat(5, 1)
    /\ attempt = 10
    /\ ret.d = Duration(5, 0)

\* the interval [capped * (1 - j/2), capped * (1 + j/2)] of the current state
JitterLo == RMul(CappedNow, RSub(Rat(1, 1), RMul(config.jitter_factor, Rat(1, 2))))

JitterHi == RMul(CappedNow, RAdd(Rat(1, 1), RMul(config.jitter_factor, Rat(1, 2))))

JitterInUnit == RLt(Rat(0, 1), config.jitter_factor) /\ RLe(config.jitter_factor, Rat(1, 1))

\* C7 as stated: with 0 < j <= 1 the delay returned lies in
\* [capped * (1 - j/2), capped * (1 + j/2)] and is not negative.
C7_Original ==
    ret.op = "calculate_backoff" /\ JitterInUnit =>
        /\ DurLe(CeilDur(JitterLo), ret.d)
        /\ DurLe(ret.d, FloorDur(JitterHi))
        /\ DurLe(ZeroDuration, ret.d)

\* C7 amended: with 0 < j <= 1 the delay returned is a whole number of
\* nanoseconds no more than one nanosecond outside
\* [capped * (1 - j/2), capped * (1 + j/2)] (inside it when both ends are whole
\* nanoseconds), and it is never negative.
C7_JitterRange ==
    /\ ret.op = "calculate_backoff" /\ JitterInUnit =>
          /\ DurLe(FloorDur(JitterLo), ret.d)
          /\ DurLe(ret.d, CeilDur(JitterHi))
    /\ ret.op = "calculate_backoff" => DurLe(ZeroDuration, ret.d)

C7_Witness ==
    /\ ret.op = "calculate_backoff"
    /\ config.jitter_factor = Rat(1, 1)
    /\ ret.u = Rat(0, 1)
    /\ attempt = 2
    /\ ~WholeNanos(JitterLo)
    /\ ret.d = FloorDur(JitterLo)

----------------------------------------------------------------------------
(* Claims about detect_rate_limit_in_sse *)

\* a line that starts with the marker "data: ", and what follows the marker
IsDataLine(l) == Len(l) >= 2 /\ l[1] = "data:" /\ l[2] = " "

PayloadOf(l) == SubSeq(l, 3, Len(l))

NotWs(c) == c \notin Whitespace

\* the payload is [DONE], whitespace around it aside
IsSentinel(p) == SelectSeq(p, NotWs) = <<"[DONE]">>

\* "rate limit" occurs in t, in any letter case
HasNeedleAnyCase(t) ==
    \E i \in 1..(Len(t) - 2) :
        /\ t[i] \in {"rate", "Rate", "RATE"}
        /\ t[i + 1] = " "
        /\ t[i + 2] \in {"limit", "LIMIT"}

\* the text of a payload that is classified: the text extracted from the parsed
\* JSON value, or the payload itself when it is not JSON
CandidateText(p) ==
    LET r == from_str(p)
    IN  IF r.ok THEN extract_error_from_json(r.v) ELSE Some(p)

ScannedLines == lines(sse_data)

\* C8: when the scan of a chunk has returned and some data line of the chunk
\* (any position, whatever the other lines are) has a payload other than [DONE]
\* whose extracted text contains "rate limit" in some letter case, the result
\* is true.
C8_DetectsRateLimit ==
    /\ scanPc = "returned"
    /\ \E i \in 1..Len(ScannedLines) :
          /\ IsDataLine(ScannedLines[i])
          /\ ~IsSentinel(PayloadOf(ScannedLines[i]))
          /\ LET c == CandidateText(PayloadOf(ScannedLines[i]))
             IN  c.some /\ HasNeedleAnyCase(c.s)
    => scanRet = TRUE

C8_Witness ==
    /\ scanPc = "returned"
    /\ scanRet = TRUE
    /\ ScannedLines =
          << <<"data:", " ">> \o JObj1("delta", JObj1("text", JStr(<<"z">>))),
             <<"data:", " ">> \o JObj1("error", JObj1("message", JStr(<<"RATE", " ", "LIMIT">>))) >>

\* C9 as stated: when no data line of the chunk contains "rate limit" (in any
\* letter case), the result is false.
C9_Original ==
    /\ scanPc = "returned"
    /\ \A i \in 1..Len(ScannedLines) :
          IsDataLine(ScannedLines[i]) => ~HasNeedleAnyCase(ScannedLines[i])
    => scanRet = FALSE

\* C9 amended: when no data line of the chunk has a classified text (the text
\* extracted from its decoded JSON payload, or the raw payload when it is not
\* JSON) that contains "rate limit" in any letter case, the result is false;
\* lines without the "data: " marker are skipped whatever they contain.
C9_NoSignalNoDetection ==
    /\ scanPc = "returned"
    /\ \A i \in 1..Len(ScannedLines) :
          IsDataLine(ScannedLines[i]) =>
              LET c == CandidateText(PayloadOf(ScannedLines[i]))
              IN  c.some => ~HasNeedleAnyCase(c.s)
    => scanRet = FALSE

C9_Witness ==
    /\ scanPc = "returned"
    /\ scanRet = FALSE
    /\ ScannedLines =
          << <<"event:", " ", "rate", " ", "limit">>,
             <<"data:", " ">> \o JObj1("delta", JObj1("text", JStr(<<"z">>))) >>

\* C10: when the chunk has a data line and every data line of it is the [DONE]
\* marker (whitespace around it aside), the result is false, whatever the
\* lines without the "data: " marker contain.
C10_DoneNeverMatches ==
    /\ scanPc = "returned"
    /\ \E i \in 1..Len(ScannedLines) : IsDataLine(ScannedLines[i])
    /\ \A i \in 1..Len(ScannedLines) :
          IsDataLine(ScannedLines[i]) => IsSentinel(PayloadOf(ScannedLines[i]))
    => scanRet = FALSE

C10_Witness ==
    /\ scanPc = "returned"
    /\ scanRet = FALSE
    /\ ScannedLines = << <<"rate", " ", "limit">>, <<"data:", " ", " ", "[DONE]", " ">> >>

----------------------------------------------------------------------------
(* The order of the fields the extraction consults *)

FieldOrder ==
    << <<"error">>, <<"error", "message">>, <<"error", "detail">>,
       <<"delta", "text">>, <<"message">> >>

\* the value found by following the keys of path from v, if every key is there
RECURSIVE AtPath(_, _)
AtPath(v, path) ==
    IF path = <<>> THEN [some |-> TRUE, v |-> v]
    ELSE LET g == Get(v, Head(path))
         IN  IF g.some THEN AtPath(g.v, Tail(path)) ELSE g

\* the n-th field qualifies: it is present and is a text value
Qualifies(json, n) ==
    LET g == AtPath(json, FieldOrder[n]) IN g.some /\ g.v.t = "str"

\* the line consumed last is a data line whose payload parsed as JSON
LastLineIsJson ==
    /\ lineNo >= 1
    /\ IsDataLine(lineIter[lineNo])
    /\ ~IsSentinel(PayloadOf(lineIter[lineNo]))
    /\ from_str(PayloadOf(lineIter[lineNo])).ok

LastJson == from_str(PayloadOf(lineIter[lineNo])).v

\* C11: the text extracted from a parsed payload is the text of the first
\* field, in the order error, error.message, error.detail, delta.text, message,
\* that is present and is a text value (fields that are absent or not text are
\* passed over, later fields are not consulted), and it is absent when no field
\* qualifies.
C11_ExtractionOrder ==
    LastLineIsJson =>
        IF \E n \in 1..Len(FieldOrder) : Qualifies(LastJson, n)
        THEN LET n == CHOOSE k \in 1..Len(FieldOrder) :
                          /\ Qualifies(LastJson, k)
                          /\ \A m \in 1..(k - 1) : ~Qualifies(LastJson, m)
             IN  cand = Some(AtPath(LastJson, FieldOrder[n]).v.s)
        ELSE cand = None

\* a text in error that does not match hides the rate-limit text in delta.text
C11_Witness ==
    /\ scanPc = "returned"
    /\ scanRet = FALSE
    /\ cand = Some(<<"z">>)
    /\ lineIter =
          << <<"data:", " ">> \o
             JObj2("error", JStr(<<"z">>), "delta", JObj1("text", JStr(<<"rate", " ", "limit">>))) >>

----------------------------------------------------------------------------
(* Calls of the scanner in sequence *)

\* what a chunk holds on its own: some data line, not [DONE], whose classified
\* text contains the needle
Detect(chunk) ==
    \E i \in 1..Len(lines(chunk)) :
        LET l == lines(chunk)[i]
        IN  /\ IsDataLine(l)
            /\ ~IsSentinel(PayloadOf(l))
            /\ LET c == CandidateText(PayloadOf(l))
               IN  c.some /\ HasNeedleAnyCase(c.s)

\* the calls that have returned, the current one included when it has
Returned ==
    IF scanPc = "returned"
    THEN Append(history, [chunk |-> sse_data, ret |-> scanRet])
    ELSE history

\* C12: in a sequence of calls the result for a chunk depends on that chunk
\* alone: it is what the chunk holds by itself, whatever was scanned before,
\* and two calls on the same chunk give the same result; the two parts of a
\* payload line cut between two chunks are judged each on its own.
C12_Stateless ==
    /\ \A i \in 1..Len(Returned) : Returned[i].ret = Detect(Returned[i].chunk)
    /\ \A i, j \in 1..Len(Returned) :
          Returned[i].chunk = Returned[j].chunk => Returned[i].ret = Returned[j].ret

\* a payload line cut in two is scanned to false twice, and to true in one piece
C12_Witness ==
    /\ scanPc = "returned"
    /\ scanRet = TRUE
    /\ Len(history) = 2
    /\ history[1] = [chunk |-> <<"data:", " ", "{">> \o <<Q, "error", Q, ":", Q, "rate">>,
                     ret |-> FALSE]
    /\ history[2] = [chunk |-> <<" ", "limit", Q, "}", "\n">>, ret |-> FALSE]
    /\ sse_data = history[1].chunk \o history[2].chunk

----------------------------------------------------------------------------
(* Sequences running side by side *)

\* C13: under every interleaving of the steps of the sequences, each
\* sequence's attempt count is the number of its own completed waits, and a
\* step that changes one sequence leaves the attempt count and the policy of
\* every other sequence as they were.
C13_NoSharedState ==
    [][ /\ \A i \in SeqIds : seqs'[i].attempt = seqs'[i].completed
        /\ \A i, j \in SeqIds :
              i # j /\ seqs'[i] # seqs[i] =>
                  /\ seqs'[j].attempt = seqs[j].attempt
                  /\ seqs'[j].config = seqs[j].config ]_vars

\* two sequences with different policies, interleaved: one has completed two
\* waits while the other, one wait done, is suspended in its second
C13_Witness ==
    /\ seqs # <<>>
    /\ seqs[1].attempt = 2 /\ seqs[1].completed = 2 /\ seqs[1].pc = "idle"
    /\ seqs[2].attempt = 1 /\ seqs[2].completed = 1 /\ seqs[2].pc = "sleeping"
    /\ seqs[1].config # seqs[2].config

----------------------------------------------------------------------------
(* The scan, line by line *)

\* the line consumed last is a data line whose payload is not JSON
LastLineIsRaw ==
    /\ lineNo >= 1
    /\ IsDataLine(lineIter[lineNo])
    /\ ~IsSentinel(PayloadOf(lineIter[lineNo]))
    /\ ~from_str(PayloadOf(lineIter[lineNo])).ok

\* C14: a payload that does not parse is no error outcome: the scan is either
\* under way or has returned a boolean, the text it classifies for such a line
\* is the raw payload (true at once when it holds the needle), and a scan that
\* returns false has gone through every line, those after the unparsable one
\* included.
C14_ParseFailureFallsBack ==
    /\ scanPc \in {"scanning", "returned"}
    /\ scanRet \in BOOLEAN
    /\ LastLineIsRaw =>
          /\ cand = Some(PayloadOf(lineIter[lineNo]))
          /\ HasNeedleAnyCase(PayloadOf(lineIter[lineNo])) =>
                 scanPc = "returned" /\ scanRet = TRUE
    /\ scanPc = "returned" /\ scanRet = FALSE => lineNo = Len(lineIter)

\* an unparsable payload without the needle, then an unparsable one with it
C14_Witness ==
    /\ scanPc = "returned"
    /\ scanRet = TRUE
    /\ lineNo = 2
    /\ lineIter =
          << <<"data:", " ", "z">>,
             <<"data:", " ", "{">> \o JField("error", <<Q, "rate", " ", "limit">>) >>
    /\ cand = Some(<<"{">> \o JField("error", <<Q, "rate", " ", "limit">>))

\* the line is a data line whose classified text is a rate-limit signal
LineMatches(l) ==
    /\ IsDataLine(l)
    /\ ~IsSentinel(PayloadOf(l))
    /\ LET c == CandidateText(PayloadOf(l))
       IN  c.some /\ HasNeedleAnyCase(c.s)

\* C15: the lines are examined in order, lineNo of them so far; none of those
\* before the last examined one matches, and when the last examined one
\* matches the scan has returned true there, so that the lines after the first
\* matching one are never examined and the result is true whatever they are.
C15_ShortCircuit ==
    /\ lineNo <= Len(lineIter)
    /\ \A i \in 1..(lineNo - 1) : ~LineMatches(lineIter[i])
    /\ lineNo >= 1 /\ LineMatches(lineIter[lineNo]) =>
          scanPc = "returned" /\ scanRet = TRUE
    /\ scanPc = "returned" /\ scanRet = TRUE => LineMatches(lineIter[lineNo])

\* returned true at the first of two lines; the second one is left unexamined
C15_Witness ==
    /\ scanPc = "returned"
    /\ scanRet = TRUE
    /\ lineNo = 1
    /\ lineIter =
          << <<"data:", " ">> \o JObj1("message", JStr(<<"rate", " ", "limit">>)),
             <<"data:", " ", "z">> >>

\* the payload of a data line parses and none of the five fields qualifies
NoFieldLine(l) ==
    /\ IsDataLine(l)
    /\ ~IsSentinel(PayloadOf(l))
    /\ from_str(PayloadOf(l)).ok
    /\ \A n \in 1..Len(FieldOrder) : ~Qualifies(from_str(PayloadOf(l)).v, n)

\* C16: a data line whose payload parses but has none of the five fields gives
\* no text to classify and the scan does not return true at it, whatever its
\* raw text holds; a chunk whose data lines are all of this kind is scanned to
\* false.
C16_NoFallbackWhenParsed ==
    /\ lineNo >= 1 /\ NoFieldLine(lineIter[lineNo]) =>
          cand = None /\ ~(scanPc = "returned" /\ scanRet = TRUE)
    /\ /\ scanPc = "returned"
       /\ \A i \in 1..Len(lineIter) :
             IsDataLine(lineIter[i]) => NoFieldLine(lineIter[i])
       => scanRet = FALSE

\* "rate limit" under another key, and as a bare JSON string: scanned to false
C16_Witness ==
    /\ scanPc = "returned"
    /\ scanRet = FALSE
    /\ lineIter =
          << <<"data:", " ">> \o JObj1("other", JStr(<<"rate", " ", "limit">>)),
             <<"data:", " ">> \o JStr(<<"rate", " ", "limit">>) >>

----------------------------------------------------------------------------
(* The caller's loop *)

\* C17: from new(policy), a caller that waits only while can_retry() holds,
\* and whose suspensions all complete, comes to rest: from some point on it is
\* idle with exactly max_retries completed waits, attempt = max_retries and
\* can_retry() false, for good.
C17_LoopTerminates ==
    <>[](/\ pc = "idle"
         /\ completed = config.max_retries
         /\ attempt = config.max_retries
         /\ ~can_retry)

\* after three completed waits under max_retries = 3, can_retry() answers false
C17_Witness ==
    /\ disciplined
    /\ config.max_retries = 3
    /\ attempt = 3
    /\ completed = 3
    /\ ret.op = "can_retry"
    /\ ret.b = FALSE

----------------------------------------------------------------------------
(* The bound on attempt is the caller's *)

\* C18: wait_and_increment does not look at can_retry(): started at an attempt
\* at or above max_retries it suspends for the computed backoff like any other
\* wait, and when it returns attempt is one more than at its start, above
\* max_retries; only a caller that checks can_retry() keeps attempt within
\* max_retries.
C18_NoInternalCheck ==
    /\ ret.op = "wait_start" /\ attempt >= config.max_retries =>
          pc = "sleeping" /\ sleepDelay = calculate_backoff(ret.u)
    /\ ret.op = "wait_and_increment" /\ attempt0 >= config.max_retries =>
          /\ attempt = attempt0 + 1
          /\ attempt > config.max_retries
          /\ ~can_retry
    /\ disciplined => attempt <= config.max_retries

\* a caller that does not stop: under max_retries = 1 a wait started at
\* attempt 2 has returned with attempt 3
C18_Witness ==
    /\ ~disciplined
    /\ config.max_retries = 1
    /\ ret.op = "wait_and_increment"
    /\ attempt0 = 2
    /\ attempt = 3

----------------------------------------------------------------------------
(* A chunk cut at a line boundary *)

EndsWithNewline(c) == c # <<>> /\ c[Len(c)] = "\n"

\* C19: when the chunk just scanned is c1 followed by c2, two chunks scanned
\* before, and c1 ends with a line terminator, its result is the result for c1
\* or the result for c2.
C19_SplitAtLineBoundary ==
    scanPc = "returned" =>
        \A i, j \in 1..Len(history) :
            /\ EndsWithNewline(history[i].chunk)
            /\ sse_data = history[i].chunk \o history[j].chunk
            => scanRet = (history[i].ret \/ history[j].ret)

\* [DONE] line, then a rate-limit line, then the two in one chunk
C19_Witness ==
    /\ scanPc = "returned"
    /\ scanRet = TRUE
    /\ Len(history) = 2
    /\ history[1] = [chunk |-> <<"data:", " ", "[DONE]", "\n">>, ret |-> FALSE]
    /\ history[2] = [chunk |-> <<"data:", " ", "rate", " ", "limit", "\n">>, ret |-> TRUE]
    /\ sse_data = history[1].chunk \o history[2].chunk

----------------------------------------------------------------------------
(* The delay along a retry sequence, without jitter *)

\* multiplier >= 1 and max >= initial > 0, and no jitter
MonotonePolicy ==
    /\ config.jitter_factor = Rat(0, 1)
    /\ RLe(Rat(1, 1), config.backoff_multiplier)
    /\ RLt(Rat(0, 1), config.initial_backoff_seconds)
    /\ RLe(config.initial_backoff_seconds, config.max_backoff_seconds)

\* the delay of this policy at attempt a: min(initial * multiplier^a, max) as a
\* Duration
DelayAt(a) ==
    from_secs_f64(RMin(RMul(config.initial_backoff_seconds,
                            powi(config.backoff_multiplier, a)),
                       config.max_backoff_seconds))

MaxDelay == from_secs_f64(config.max_backoff_seconds)

\* C20 as stated: the delay is non-decreasing in attempt, never exceeds max,
\* and once it has reached max it equals max.
C20_Original ==
    ret.op = "calculate_backoff" /\ MonotonePolicy =>
        /\ attempt >= 1 => DurLe(DelayAt(attempt - 1), ret.d)
        /\ DurLe(ret.d, FloorDur(config.max_backoff_seconds))
        /\ attempt >= 1 /\ DelayAt(attempt - 1) = MaxDelay =>
              ret.d = FloorDur(config.max_backoff_seconds)
              /\ WholeNanos(config.max_backoff_seconds)

\* C20 amended: with no jitter, multiplier >= 1 and max >= initial > 0, the
\* delay is non-decreasing in attempt, never exceeds max rounded to whole
\* nanoseconds (so exceeds max by less than a nanosecond), and once it has
\* reached that value it keeps it at every later attempt.
C20_MonotoneCapped ==
    ret.op = "calculate_backoff" /\ MonotonePolicy =>
        /\ attempt >= 1 => DurLe(DelayAt(attempt - 1), ret.d)
        /\ DurLe(ret.d, MaxDelay)
        /\ DurLe(ret.d, CeilDur(config.max_backoff_seconds))
        /\ attempt >= 1 /\ DelayAt(attempt - 1) = MaxDelay => ret.d = MaxDelay

\* initial 2^-10 s doubled under max 3 * 2^-11 s = 1464843.75 ns: from attempt
\* 1 on the delay is 1464844 ns
C20_Witness ==
    /\ ret.op = "calculate_backoff"
    /\ MonotonePolicy
    /\ config.initial_backoff_seconds = Rat(1, 1024)
    /\ config.backoff_multiplier = Rat(2, 1)
    /\ config.max_backoff_seconds = Rat(3, 2048)
    /\ attempt = 2
    /\ ret.d = Duration(0, 1464844)

====
